---- MODULE Spec2Model ----
(***************************************************************************)
(* Weather app (main.js): input validation, the time-boxed cache, the two  *)
(* chained API calls of getTemperature and the rendering done by           *)
(* handleRequest.  Strings the program inspects character by character     *)
(* (the city input, the cache key) are sequences of one-character strings. *)
(***************************************************************************)
EXTENDS Integers, Sequences, FiniteSets, TLC

\* ------------------------------------------------------------------------
\* Bounds of the model
\* ------------------------------------------------------------------------
MaxSubs == 2        \* submissions (handleRequest invocations) per behaviour
MaxTicks == 2       \* clock advances per behaviour
MaxCoreLen == 2     \* free characters of a generated validation input

\* ------------------------------------------------------------------------
\* CONFIG and the literals of Validation.validateCity
\* ------------------------------------------------------------------------
CACHE_DURATION == 300000
MinCityLen == 2
MaxCityLen == 50

\* ------------------------------------------------------------------------
\* Characters
\* ------------------------------------------------------------------------
LowerAscii ==
    {"a","b","c","d","e","f","g","h","i","j","k","l","m",
     "n","o","p","q","r","s","t","u","v","w","x","y","z"}
UpperAscii ==
    {"A","B","C","D","E","F","G","H","I","J","K","L","M",
     "N","O","P","Q","R","S","T","U","V","W","X","Y","Z"}
Umlauts == {"ä","ö","ü","Ä","Ö","Ü","ß"}
\* the members of \s (and of String.prototype.trim's white space) used here
WhiteSpace == {" ", "\t", "\n"}
Hyphen == {"-"}

\* /^[a-zA-ZäöüÄÖÜß\s\-]+$/ : the character class
CityCharClass == LowerAscii \cup UpperAscii \cup Umlauts \cup WhiteSpace \cup Hyphen

\* the regular expression test of validateCity: one or more characters, all
\* of the class
CityRegexTest(s) == Len(s) >= 1 /\ \A i \in 1..Len(s) : s[i] \in CityCharClass

\* String.prototype.trim
RECURSIVE TrimStart(_)
TrimStart(s) ==
    IF s # <<>> /\ Head(s) \in WhiteSpace THEN TrimStart(Tail(s)) ELSE s

RECURSIVE TrimEnd(_)
TrimEnd(s) ==
    IF s # <<>> /\ s[Len(s)] \in WhiteSpace
    THEN TrimEnd(SubSeq(s, 1, Len(s) - 1))
    ELSE s

Trim(s) == TrimEnd(TrimStart(s))

\* String.prototype.toLowerCase, character by character
UpperSeq ==
    <<"A","B","C","D","E","F","G","H","I","J","K","L","M","N","O","P","Q",
      "R","S","T","U","V","W","X","Y","Z","Ä","Ö","Ü">>
LowerSeq ==
    <<"a","b","c","d","e","f","g","h","i","j","k","l","m","n","o","p","q",
      "r","s","t","u","v","w","x","y","z","ä","ö","ü">>

LowerChar(c) ==
    IF \E i \in 1..Len(UpperSeq) : UpperSeq[i] = c
    THEN LowerSeq[CHOOSE i \in 1..Len(UpperSeq) : UpperSeq[i] = c]
    ELSE c

\* variant: the string is used as typed
ToLowerCaseNot(s) == s

ToLowerCase(s) == [i \in 1..Len(s) |-> LowerChar(s[i])]

\* ------------------------------------------------------------------------
\* Errors: new Error(message); the message is a text with the interpolated
\* HTTP status or city, if any
\* ------------------------------------------------------------------------
Err(text) == [text |-> text, status |-> 0, city |-> <<>>]
ErrStatus(text, status) == [text |-> text, status |-> status, city |-> <<>>]
ErrCity(text, city) == [text |-> text, status |-> 0, city |-> city]
NoError == Err("")

MsgEmpty == Err("Bitte eine Stadt eingeben")
MsgTooShort == Err("Stadt muss mindestens 2 Zeichen haben")
MsgTooLong == Err("Stadt darf maximal 50 Zeichen haben")
MsgInvalidChars == Err("Ungültige Zeichen im Stadtnamen")

\* how a call ends: it returns a value or throws an error (none: the
\* placeholder standing for "no value" of the call's type)
Thrown(e, none) == [ok |-> FALSE, value |-> none, error |-> e]
Returned(v) == [ok |-> TRUE, value |-> v, error |-> NoError]

\* ------------------------------------------------------------------------
\* Validation.validateCity
\* ------------------------------------------------------------------------
\* variant: the character test runs before the length tests
validateCityRegexFirst(city) ==
    LET trimmed == Trim(city) IN
    IF trimmed = <<>> THEN Thrown(MsgEmpty, <<>>)
    ELSE IF ~CityRegexTest(trimmed) THEN Thrown(MsgInvalidChars, <<>>)
    ELSE IF Len(trimmed) < MinCityLen THEN Thrown(MsgTooShort, <<>>)
    ELSE IF Len(trimmed) > MaxCityLen THEN Thrown(MsgTooLong, <<>>)
    ELSE Returned(trimmed)

\* variant: the character test looks at the first character only
validateCityFirstChar(city) ==
    LET trimmed == Trim(city) IN
    IF trimmed = <<>> THEN Thrown(MsgEmpty, <<>>)
    ELSE IF Len(trimmed) < MinCityLen THEN Thrown(MsgTooShort, <<>>)
    ELSE IF Len(trimmed) > MaxCityLen THEN Thrown(MsgTooLong, <<>>)
    ELSE IF trimmed[1] \notin CityCharClass THEN Thrown(MsgInvalidChars, <<>>)
    ELSE Returned(trimmed)

validateCity(city) ==
    LET trimmed == Trim(city) IN
    IF trimmed = <<>> THEN Thrown(MsgEmpty, <<>>)
    ELSE IF Len(trimmed) < MinCityLen THEN Thrown(MsgTooShort, <<>>)
    ELSE IF Len(trimmed) > MaxCityLen THEN Thrown(MsgTooLong, <<>>)
    ELSE IF ~CityRegexTest(trimmed) THEN Thrown(MsgInvalidChars, <<>>)
    ELSE Returned(trimmed)

\* ------------------------------------------------------------------------
\* The outside world: what the two endpoints may answer, what the user may
\* type, how far the clock may jump
\* ------------------------------------------------------------------------
Undefined == "undefined"
NoLocation == [latitude |-> 0, longitude |-> 0, name |-> <<>>, country |-> ""]
NoCoords == [latitude |-> 0, longitude |-> 0]
NoReading == [city |-> <<>>, country |-> "", temperature |-> 0]

Ulm == <<"U","l","m">>
Au == <<"A","u">>

\* DOM.input.value at the time of a submission
RawInputs ==
    { Ulm,
      <<" ","u","L","M","\t">>,
      Au,
      <<>>,
      <<" ","\n">>,
      <<" ","U"," ">>,
      <<"U","1","m">>,
      [i \in 1..(MaxCityLen + 1) |-> "a"] }

\* how a fetch settles: rejected (network failure), or fulfilled with a
\* response of some response.status
HttpStatuses == {200, 500}
FetchOutcomes ==
    {[rejected |-> TRUE, status |-> 0]}
        \cup {[rejected |-> FALSE, status |-> st] : st \in HttpStatuses}
NetworkError == Err("Failed to fetch")

\* response.ok
ResponseOk(status) == status \in 200..299

GeoUlm == [latitude |-> 48, longitude |-> 10, name |-> Ulm, country |-> "Deutschland"]
GeoAu == [latitude |-> 47, longitude |-> 9, name |-> Au, country |-> Undefined]

\* the JSON of the geocoding endpoint: { results: [...] } | { }
GeoBodies ==
    { [hasResults |-> FALSE, results |-> <<>>],
      [hasResults |-> TRUE, results |-> <<>>],
      [hasResults |-> TRUE, results |-> <<GeoUlm>>],
      [hasResults |-> TRUE, results |-> <<GeoAu, GeoUlm>>] }

\* the JSON of the weather endpoint: { current: { temperature_2m: number } },
\* temperatures in tenths of a degree
WeatherBodies ==
    { [hasCurrent |-> FALSE, hasTemperature |-> FALSE, temperature_2m |-> 0],
      [hasCurrent |-> TRUE, hasTemperature |-> FALSE, temperature_2m |-> 0],
      [hasCurrent |-> TRUE, hasTemperature |-> TRUE, temperature_2m |-> 0],
      [hasCurrent |-> TRUE, hasTemperature |-> TRUE, temperature_2m |-> 93] }

\* how far Date.now() moves between two events
TickSteps == {1, CACHE_DURATION}

\* ------------------------------------------------------------------------
\* State
\* ------------------------------------------------------------------------
VARIABLES
    now,        \* Date.now()
    ticks,      \* clock advances so far
    cache,      \* Cache.data: key -> [value, timestamp]
    writer,     \* history: key -> the submission whose Cache.set stored the entry
    DOM,        \* which optional elements the page has (DOM.error, DOM.loading)
    ui,         \* what the elements show
    nSubs,      \* handleRequest invocations so far
    sub,        \* per invocation: where it is suspended and what it has done
    alive,      \* the page has not been left
    vIn,        \* validation run: the raw input
    vOut,       \* validation run: what validateCity did with it
    cGot        \* cache run: the last Cache.get call and what it returned

vars == <<now, ticks, cache, writer, DOM, ui, nSubs, sub, alive, vIn, vOut, cGot>>

Subs == 1..MaxSubs

\* ------------------------------------------------------------------------
\* Cache
\* ------------------------------------------------------------------------
EmptyMap == [k \in {} |-> 0]
MapSet(m, k, v) == [x \in (DOMAIN m) \cup {k} |-> IF x = k THEN v ELSE m[x]]
MapDelete(m, k) == [x \in (DOMAIN m) \ {k} |-> m[x]]

\* variant: an entry that is there is kept
CacheSetIfAbsent(data, key, value, t) ==
    IF key \in DOMAIN data THEN data
    ELSE MapSet(data, key, [value |-> value, timestamp |-> t])

\* Cache.set
CacheSet(data, key, value, t) ==
    MapSet(data, key, [value |-> value, timestamp |-> t])

\* variant: an entry aged exactly CACHE_DURATION counts as expired
CacheExpiredAtLimit(item, t) == t - item.timestamp >= CACHE_DURATION

\* variant: the subtraction is the wrong way round
CacheExpiredReversed(item, t) == item.timestamp - t > CACHE_DURATION

\* Cache.get: "Cache expired?"
CacheExpired(item, t) == t - item.timestamp > CACHE_DURATION

\* variant: a lookup past expiry sweeps every expired entry
CacheGetSweep(data, key, t) ==
    IF key \notin DOMAIN data
    THEN [found |-> FALSE, value |-> NoReading, data |-> data]
    ELSE IF CacheExpired(data[key], t)
    THEN [found |-> FALSE, value |-> NoReading,
          data |-> [k \in {x \in DOMAIN data : ~CacheExpired(data[x], t)} |-> data[k]]]
    ELSE [found |-> TRUE, value |-> data[key].value, data |-> data]

\* Cache.get: what it returns (found: not null) and the map it leaves
CacheGet(data, key, t) ==
    IF key \notin DOMAIN data
    THEN [found |-> FALSE, value |-> NoReading, data |-> data]
    ELSE IF CacheExpired(data[key], t)
    THEN [found |-> FALSE, value |-> NoReading, data |-> MapDelete(data, key)]
    ELSE [found |-> TRUE, value |-> data[key].value, data |-> data]

\* Cache.clear
CacheClear(data) == EmptyMap

\* ------------------------------------------------------------------------
\* UI
\* ------------------------------------------------------------------------
EmptyContent ==
    [kind |-> "empty", city |-> <<>>, countryFlag |-> <<>>, temperature |-> 0,
     message |-> NoError]

\* UI.escapeHtml: what innerHTML gives back for a text node
EscapeChar(c) ==
    IF c = "&" THEN "&amp;"
    ELSE IF c = "<" THEN "&lt;"
    ELSE IF c = ">" THEN "&gt;"
    ELSE c
escapeHtml(text) == [i \in 1..Len(text) |-> EscapeChar(text[i])]

\* UI.showLoading
showLoading(d) ==
    [d EXCEPT !.loadingHidden = IF DOM.loading THEN FALSE ELSE @,
              !.result = EmptyContent,
              !.errorHidden = IF DOM.error THEN TRUE ELSE @,
              !.buttonDisabled = TRUE]

\* variant: the button is not enabled again
hideLoadingOnly(d) ==
    [d EXCEPT !.loadingHidden = IF DOM.loading THEN TRUE ELSE @]

\* UI.hideLoading
hideLoading(d) ==
    [d EXCEPT !.loadingHidden = IF DOM.loading THEN TRUE ELSE @,
              !.buttonDisabled = FALSE]

\* UI.showResult
showResult(d, city, temperature, country) ==
    LET countryFlag == IF country # "" THEN <<" (", country, ")">> ELSE <<>> IN
    [hideLoading(d) EXCEPT
        !.result = [kind |-> "result", city |-> escapeHtml(city),
                    countryFlag |-> countryFlag, temperature |-> temperature,
                    message |-> NoError],
        !.resultHidden = FALSE]

\* UI.showError
showError(d, message) ==
    IF DOM.error
    THEN [hideLoading(d) EXCEPT !.result = EmptyContent,
                                !.errorText = message,
                                !.errorHidden = FALSE]
    ELSE [hideLoading(d) EXCEPT
            !.result = [EmptyContent EXCEPT !.kind = "error", !.message = message]]

\* ------------------------------------------------------------------------
\* API
\* ------------------------------------------------------------------------
\* API.getCoordinates / API.getWeather: the check of the fetch result
GeoFetched(outcome) ==
    IF outcome.rejected THEN Thrown(NetworkError, outcome)
    ELSE IF ~ResponseOk(outcome.status)
    THEN Thrown(ErrStatus("Geocoding API Fehler: ", outcome.status), outcome)
    ELSE Returned(outcome)

WeatherFetched(outcome) ==
    IF outcome.rejected THEN Thrown(NetworkError, outcome)
    ELSE IF ~ResponseOk(outcome.status)
    THEN Thrown(ErrStatus("Weather API Fehler: ", outcome.status), outcome)
    ELSE Returned(outcome)

\* data.results[0].country || ''
OrEmpty(x) == IF x = Undefined \/ x = "" THEN "" ELSE x

\* variant: the last result is taken instead of the first
GetCoordinatesDataLast(city, data) ==
    IF ~data.hasResults \/ Len(data.results) = 0
    THEN Thrown(ErrCity("Stadt \"${city}\" wurde nicht gefunden", city), NoLocation)
    ELSE LET last == data.results[Len(data.results)] IN
         Returned([latitude |-> last.latitude, longitude |-> last.longitude,
                   name |-> last.name, country |-> OrEmpty(last.country)])

\* API.getCoordinates: from the parsed JSON to the location or the error
GetCoordinatesData(city, data) ==
    IF ~data.hasResults \/ Len(data.results) = 0
    THEN Thrown(ErrCity("Stadt \"${city}\" wurde nicht gefunden", city), NoLocation)
    ELSE Returned([latitude |-> data.results[1].latitude,
                   longitude |-> data.results[1].longitude,
                   name |-> data.results[1].name,
                   country |-> OrEmpty(data.results[1].country)])

\* variant: the temperature is tested for truthiness
GetWeatherDataFalsy(data) ==
    IF ~data.hasCurrent \/ ~data.hasTemperature \/ data.temperature_2m = 0
    THEN Thrown(Err("Keine Wetterdaten verfügbar"), 0)
    ELSE Returned(data.temperature_2m)

\* API.getWeather: from the parsed JSON to the temperature or the error
GetWeatherData(data) ==
    IF ~data.hasCurrent \/ ~data.hasTemperature
    THEN Thrown(Err("Keine Wetterdaten verfügbar"), 0)
    ELSE Returned(data.temperature_2m)

\* variant: the two arguments are swapped
WeatherArgsSwapped(location) ==
    [latitude |-> location.longitude, longitude |-> location.latitude]

\* API.getTemperature: the arguments of this.getWeather(...)
WeatherArgs(location) ==
    [latitude |-> location.latitude, longitude |-> location.longitude]

\* API.getTemperature: the result object
MakeResult(location, temperature) ==
    [city |-> location.name, country |-> location.country,
     temperature |-> temperature]

\* variant: the result is stored before the temperature is looked at
CacheAfterWeatherEager(data, key, location, w, t) ==
    CacheSet(data, key, MakeResult(location, w.value), t)

\* API.getTemperature: what the cache holds once getWeather has returned the
\* temperature (Cache.set) or thrown (nothing)
CacheAfterWeather(data, key, location, w, t) ==
    IF w.ok THEN CacheSet(data, key, MakeResult(location, w.value), t) ELSE data

\* ------------------------------------------------------------------------
\* One invocation of handleRequest
\* ------------------------------------------------------------------------
UnusedSub ==
    [pc |-> "unused", raw |-> <<>>, city |-> <<>>, location |-> NoLocation,
     weatherReq |-> NoCoords, trace |-> <<>>,
     outcome |-> Thrown(NoError, NoReading)]

InFlightPcs == {"geoFetch", "geoJson", "weatherFetch", "weatherJson"}
InFlight(s) == sub[s].pc \in InFlightPcs

\* how often an event occurs in a trace
RECURSIVE Count(_, _)
Count(tr, ev) ==
    IF tr = <<>> THEN 0
    ELSE (IF Head(tr) = ev THEN 1 ELSE 0) + Count(Tail(tr), ev)

\* variant: the catch block throws an error of its own
getTemperatureCatchWrapped(error) == Err("API-Fehler")

\* API.getTemperature, catch (error): "throw error"
getTemperatureCatch(error) == error

\* variant: a failed geocoding or weather call is tried once more
FailRetry(r, e) ==
    IF r.pc \in {"geoFetch", "geoJson"} /\ Count(r.trace, "geoCall") < 2
    THEN [r EXCEPT !.pc = "geoFetch", !.trace = Append(@, "geoCall")]
    ELSE IF r.pc \in {"weatherFetch", "weatherJson"} /\ Count(r.trace, "weatherCall") < 2
    THEN [r EXCEPT !.pc = "weatherFetch", !.trace = Append(@, "weatherCall")]
    ELSE [r EXCEPT !.pc = "done", !.outcome = Thrown(e, NoReading),
                   !.trace = Append(@, "error")]

\* variant: the error is swallowed, UI.showError is not reached
FailSilent(r, e) ==
    [r EXCEPT !.pc = "done", !.outcome = Thrown(e, NoReading)]

\* the catch blocks of getTemperature (rethrow) and of handleRequest: the
\* invocation ends with the error
Fail(r, e) ==
    [r EXCEPT !.pc = "done", !.outcome = Thrown(e, NoReading),
              !.trace = Append(@, "error")]

\* handleRequest after "await API.getTemperature(city)" returned data
Succeed(r, data) ==
    [r EXCEPT !.pc = "done", !.outcome = Returned(data),
              !.trace = Append(@, "success")]

\* ------------------------------------------------------------------------
\* Initial state
\* ------------------------------------------------------------------------
InitUi ==
    [loadingHidden |-> TRUE, buttonDisabled |-> FALSE, result |-> EmptyContent,
     resultHidden |-> FALSE, errorHidden |-> TRUE, errorText |-> NoError]

NoGet == [called |-> FALSE, key |-> <<>>, at |-> 0, found |-> FALSE, value |-> NoReading]

NoValidation == [called |-> FALSE, result |-> Thrown(NoError, <<>>)]

InitApp ==
    /\ now = 0
    /\ ticks = 0
    /\ cache = EmptyMap
    /\ writer = EmptyMap
    /\ DOM \in [error : BOOLEAN, loading : BOOLEAN]
    /\ ui = InitUi
    /\ nSubs = 0
    /\ sub = [s \in Subs |-> UnusedSub]
    /\ alive = TRUE
    /\ cGot = NoGet

Init ==
    /\ InitApp
    /\ vIn = <<>>
    /\ vOut = NoValidation

\* ------------------------------------------------------------------------
\* Actions
\* ------------------------------------------------------------------------
\* handleRequest up to its first suspension at a network call, or to its end
\* (validation error; cache hit, whose continuation runs as a microtask
\* before any other event)
HandleRequest(raw) ==
    /\ alive
    /\ nSubs < MaxSubs
    /\ LET s == nSubs + 1
           v == validateCity(raw)
           r0 == [UnusedSub EXCEPT !.raw = raw]
       IN
       /\ nSubs' = s
       /\ IF ~v.ok
          THEN /\ sub' = [sub EXCEPT ![s] = Fail(r0, v.error)]
               /\ ui' = showError(ui, v.error)
               /\ UNCHANGED <<cache, writer>>
          ELSE LET city == v.value
                   key == ToLowerCase(city)
                   d1 == showLoading(ui)
                   cached == CacheGet(cache, key, now)
                   r1 == [r0 EXCEPT !.city = city, !.trace = <<"loading">>]
               IN
               /\ cache' = cached.data
               /\ writer' = [k \in DOMAIN cached.data |-> writer[k]]
               /\ IF cached.found
                  THEN /\ sub' = [sub EXCEPT ![s] =
                                    Succeed([r1 EXCEPT !.trace = Append(@, "cacheHit")],
                                            cached.value)]
                       /\ ui' = showResult(d1, cached.value.city,
                                           cached.value.temperature,
                                           cached.value.country)
                  ELSE /\ sub' = [sub EXCEPT ![s] =
                                    [r1 EXCEPT !.pc = "geoFetch",
                                               !.trace = @ \o
                                                  <<IF key \in DOMAIN cache
                                                    THEN "cacheExpired"
                                                    ELSE "cacheMiss",
                                                    "geoCall">>]]
                       /\ ui' = d1
    /\ UNCHANGED <<now, ticks, DOM, alive, vIn, vOut, cGot>>

\* getCoordinates: the geocoding fetch settles
GeoResponse(s, outcome) ==
    /\ alive
    /\ sub[s].pc = "geoFetch"
    /\ LET f == GeoFetched(outcome) IN
       IF f.ok
       THEN /\ sub' = [sub EXCEPT ![s].pc = "geoJson"]
            /\ ui' = ui
       ELSE /\ sub' = [sub EXCEPT ![s] = Fail(@, getTemperatureCatch(f.error))]
            /\ ui' = showError(ui, getTemperatureCatch(f.error))
    /\ UNCHANGED <<now, ticks, cache, writer, DOM, nSubs, alive, vIn, vOut, cGot>>

\* getCoordinates: response.json() settles; on success getTemperature goes on
\* to call getWeather, which issues the weather fetch
GeoBody(s, data) ==
    /\ alive
    /\ sub[s].pc = "geoJson"
    /\ LET g == GetCoordinatesData(sub[s].city, data) IN
       IF g.ok
       THEN /\ sub' = [sub EXCEPT ![s].pc = "weatherFetch",
                                  ![s].location = g.value,
                                  ![s].weatherReq = WeatherArgs(g.value),
                                  ![s].trace = Append(@, "weatherCall")]
            /\ ui' = ui
       ELSE /\ sub' = [sub EXCEPT ![s] = Fail(@, getTemperatureCatch(g.error))]
            /\ ui' = showError(ui, getTemperatureCatch(g.error))
    /\ UNCHANGED <<now, ticks, cache, writer, DOM, nSubs, alive, vIn, vOut, cGot>>

\* getWeather: the weather fetch settles
WeatherResponse(s, outcome) ==
    /\ alive
    /\ sub[s].pc = "weatherFetch"
    /\ LET f == WeatherFetched(outcome) IN
       IF f.ok
       THEN /\ sub' = [sub EXCEPT ![s].pc = "weatherJson"]
            /\ ui' = ui
       ELSE /\ sub' = [sub EXCEPT ![s] = Fail(@, getTemperatureCatch(f.error))]
            /\ ui' = showError(ui, getTemperatureCatch(f.error))
    /\ UNCHANGED <<now, ticks, cache, writer, DOM, nSubs, alive, vIn, vOut, cGot>>

\* getWeather: response.json() settles; on success getTemperature builds the
\* result, stores it and handleRequest shows it
WeatherBody(s, data) ==
    /\ alive
    /\ sub[s].pc = "weatherJson"
    /\ LET w == GetWeatherData(data)
           key == ToLowerCase(sub[s].city)
           result == MakeResult(sub[s].location, w.value)
       IN
       /\ cache' = CacheAfterWeather(cache, key, sub[s].location, w, now)
       /\ IF w.ok
          THEN /\ sub' = [sub EXCEPT ![s] =
                            Succeed([@ EXCEPT !.trace = Append(@, "cacheSet")], result)]
               /\ writer' = MapSet(writer, key, s)
               /\ ui' = showResult(ui, result.city, result.temperature, result.country)
          ELSE /\ sub' = [sub EXCEPT ![s] = Fail(@, getTemperatureCatch(w.error))]
               /\ writer' = writer
               /\ ui' = showError(ui, getTemperatureCatch(w.error))
    /\ UNCHANGED <<now, ticks, DOM, nSubs, alive, vIn, vOut, cGot>>

\* time passes
Tick(d) ==
    /\ alive
    /\ ticks < MaxTicks
    /\ now' = now + d
    /\ ticks' = ticks + 1
    /\ UNCHANGED <<cache, writer, DOM, ui, nSubs, sub, alive, vIn, vOut, cGot>>

\* the beforeunload listener of initApp: the page is left
BeforeUnload ==
    /\ alive
    /\ cache' = CacheClear(cache)
    /\ writer' = EmptyMap
    /\ alive' = FALSE
    /\ UNCHANGED <<now, ticks, DOM, ui, nSubs, sub, vIn, vOut, cGot>>

Next ==
    \/ \E raw \in RawInputs : HandleRequest(raw)
    \/ \E s \in Subs, outcome \in FetchOutcomes : GeoResponse(s, outcome)
    \/ \E s \in Subs, data \in GeoBodies : GeoBody(s, data)
    \/ \E s \in Subs, outcome \in FetchOutcomes : WeatherResponse(s, outcome)
    \/ \E s \in Subs, data \in WeatherBodies : WeatherBody(s, data)
    \/ \E d \in TickSteps : Tick(d)
    \/ BeforeUnload

Spec == Init /\ [][Next]_vars

\* every network call that is out is answered in the end (while the page is
\* there): the fetch settles, and so does response.json()
Responds(s) ==
    /\ WF_vars(\E outcome \in FetchOutcomes : GeoResponse(s, outcome))
    /\ WF_vars(\E data \in GeoBodies : GeoBody(s, data))
    /\ WF_vars(\E outcome \in FetchOutcomes : WeatherResponse(s, outcome))
    /\ WF_vars(\E data \in WeatherBodies : WeatherBody(s, data))

SpecLive == Spec /\ \A s \in Subs : Responds(s)

\* ------------------------------------------------------------------------
\* Validation on its own: validateCity applied to generated inputs
\* ------------------------------------------------------------------------
SeqsUpTo(A, n) == UNION {[1..k -> A] : k \in 0..n}
Repeat(c, n) == [i \in 1..n |-> c]

LeadPads == {<<>>, <<" ">>, <<"\t", " ">>}
TrailPads == {<<>>, <<" ">>, <<" ", "\n">>}
CoreAlphabet == {"a", "Z", "ö", " ", "-", "1"}
FillChars == {"b", "!"}
\* lengths around the upper limit, and no fill at all
FillCounts == {0} \cup ((MaxCityLen - 2)..(MaxCityLen + 1))

ValInputs ==
    { lead \o core \o Repeat(c, n) \o trail :
        lead \in LeadPads, core \in SeqsUpTo(CoreAlphabet, MaxCoreLen),
        c \in FillChars, n \in FillCounts, trail \in TrailPads }

InitV ==
    /\ InitApp
    /\ vIn \in ValInputs
    /\ vOut = NoValidation

ValidateRun ==
    /\ ~vOut.called
    /\ vOut' = [called |-> TRUE, result |-> validateCity(vIn)]
    /\ UNCHANGED <<now, ticks, cache, writer, DOM, ui, nSubs, sub, alive, vIn, cGot>>

NextV == ValidateRun

SpecV == InitV /\ [][NextV]_vars

\* ------------------------------------------------------------------------
\* The cache on its own: Cache.set, Cache.get and Cache.clear called in any
\* order while the clock moves
\* ------------------------------------------------------------------------
CacheKeys == {ToLowerCase(Ulm), ToLowerCase(Au)}
CacheValues ==
    { MakeResult([GeoUlm EXCEPT !.country = OrEmpty(@)], 93),
      MakeResult([GeoAu EXCEPT !.country = OrEmpty(@)], 0) }

CacheSetOp(key, value) ==
    /\ cache' = CacheSet(cache, key, value, now)
    /\ UNCHANGED <<now, ticks, writer, DOM, ui, nSubs, sub, alive, vIn, vOut, cGot>>

CacheGetOp(key) ==
    /\ LET g == CacheGet(cache, key, now) IN
       /\ cache' = g.data
       /\ cGot' = [called |-> TRUE, key |-> key, at |-> now,
                   found |-> g.found, value |-> g.value]
    /\ UNCHANGED <<now, ticks, writer, DOM, ui, nSubs, sub, alive, vIn, vOut>>

CacheClearOp ==
    /\ cache' = CacheClear(cache)
    /\ UNCHANGED <<now, ticks, writer, DOM, ui, nSubs, sub, alive, vIn, vOut, cGot>>

NextC ==
    \/ \E key \in CacheKeys, value \in CacheValues : CacheSetOp(key, value)
    \/ \E key \in CacheKeys : CacheGetOp(key)
    \/ CacheClearOp
    \/ \E d \in TickSteps : Tick(d)

SpecC == Init /\ [][NextC]_vars

\* ------------------------------------------------------------------------
\* Claims
\* ------------------------------------------------------------------------
HasBadChar(s) == \E i \in 1..Len(s) : s[i] \notin CityCharClass
Failed(res, msg) == ~res.ok /\ res.error = msg

\* C6 as stated: every input whose trimmed length is below 2 fails with
\* TooShort and every input whose trimmed length is above 50 fails with
\* TooLong, whatever its characters.
C6_LengthErrorsAsStated ==
    vOut.called =>
        /\ Len(Trim(vIn)) < 2 => Failed(vOut.result, MsgTooShort)
        /\ Len(Trim(vIn)) > 50 => Failed(vOut.result, MsgTooLong)

\* C6 amended: trimmed length exactly 1 fails with TooShort, trimmed length
\* above 50 fails with TooLong, whatever the characters; trimmed length 0
\* fails with EmptyInput instead.
C6_LengthErrors ==
    vOut.called =>
        /\ Len(Trim(vIn)) = 1 => Failed(vOut.result, MsgTooShort)
        /\ Len(Trim(vIn)) > 50 => Failed(vOut.result, MsgTooLong)
        /\ Len(Trim(vIn)) = 0 => Failed(vOut.result, MsgEmpty)

C6_Witness ==
    /\ vOut.called
    /\ Len(Trim(vIn)) = 51
    /\ Len(vIn) > 51
    /\ HasBadChar(vIn)
    /\ Failed(vOut.result, MsgTooLong)

\* C7 as stated: every input containing a character outside letters,
\* whitespace and hyphen fails with InvalidCharacters, whatever its length.
C7_InvalidCharsAsStated ==
    (vOut.called /\ HasBadChar(vIn)) => Failed(vOut.result, MsgInvalidChars)

\* C7 amended: an input containing such a character fails with
\* InvalidCharacters when its trimmed length is 2 to 50; a trimmed length of
\* 1 or above 50 fails with the length error instead.
C7_InvalidChars ==
    (vOut.called /\ HasBadChar(vIn)) =>
        /\ Len(Trim(vIn)) \in 2..50 => Failed(vOut.result, MsgInvalidChars)
        /\ Len(Trim(vIn)) = 1 => Failed(vOut.result, MsgTooShort)
        /\ Len(Trim(vIn)) > 50 => Failed(vOut.result, MsgTooLong)

C7_Witness ==
    /\ vOut.called
    /\ Len(Trim(vIn)) = 50
    /\ vIn[Len(vIn) - 1] = "!"
    /\ vIn[1] \in CityCharClass \ WhiteSpace
    /\ Failed(vOut.result, MsgInvalidChars)

\* ---- the request chain ---------------------------------------------------
Key(r) == ToLowerCase(r.city)
GeoCalls(r) == Count(r.trace, "geoCall")
WeatherCalls(r) == Count(r.trace, "weatherCall")
\* the step is the start of invocation s (a handleRequest call)
Starts(s) == nSubs = s - 1 /\ nSubs' = s
\* invocation s went to the network and getTemperature returned its result
NetworkSuccess(r) == r.pc = "done" /\ r.outcome.ok /\ Count(r.trace, "cacheSet") = 1
\* invocation s was served from the cache
ServedFromCache(r) == r.pc = "done" /\ r.outcome.ok /\ Count(r.trace, "cacheHit") = 1

\* C1: a call for a city whose entry, stored by an earlier successful call,
\* is at most CACHE_DURATION old is served from the cache: it issues no
\* network call, returns the stored reading itself and leaves the cache as
\* it is; the call that stored the entry issued exactly one geocoding and
\* one weather call, so the two together issue exactly one of each.
C1_Step ==
    \A s \in Subs :
        LET r == sub'[s] IN
        (/\ Starts(s)
         /\ r.city # <<>>
         /\ Key(r) \in DOMAIN cache
         /\ now - cache[Key(r)].timestamp <= CACHE_DURATION)
        => /\ r.pc = "done"
           /\ r.outcome.ok
           /\ r.outcome.value = cache[Key(r)].value
           /\ GeoCalls(r) = 0
           /\ WeatherCalls(r) = 0
           /\ cache' = cache
           /\ LET first == sub[writer[Key(r)]] IN
              /\ NetworkSuccess(first)
              /\ first.outcome.value = r.outcome.value
              /\ GeoCalls(first) + GeoCalls(r) = 1
              /\ WeatherCalls(first) + WeatherCalls(r) = 1

C1_IdempotentWithinTtl == [][C1_Step]_vars

C1_Witness ==
    \E s1, s2 \in Subs :
        /\ s1 < s2
        /\ NetworkSuccess(sub[s1])
        /\ ServedFromCache(sub[s2])
        /\ Key(sub[s1]) = Key(sub[s2])
        /\ sub[s1].raw # sub[s2].raw
        /\ sub[s2].outcome.value = sub[s1].outcome.value
        /\ Key(sub[s2]) \in DOMAIN cache
        /\ now - cache[Key(sub[s2])].timestamp = CACHE_DURATION
        /\ ticks = 1

\* C2: a chain that fails at the geocoding or the weather step never touches
\* the cache: every step an outstanding chain takes, other than its
\* successful completion, leaves the cache mapping exactly as it was, and a
\* failed chain has made no Cache.set.
C2_Step ==
    \A s \in Subs :
        (/\ InFlight(s)
         /\ sub'[s] # sub[s]
         /\ ~(sub'[s].pc = "done" /\ sub'[s].outcome.ok))
        => /\ cache' = cache
           /\ Count(sub'[s].trace, "cacheSet") = 0

C2_NoCachingOnError == [][C2_Step]_vars

C2_Witness ==
    \E s1, s2 \in Subs :
        /\ s1 # s2
        /\ sub[s1].pc = "done"
        /\ ~sub[s1].outcome.ok
        /\ WeatherCalls(sub[s1]) = 1
        /\ NetworkSuccess(sub[s2])
        /\ Key(sub[s1]) = Key(sub[s2])
        /\ Key(sub[s1]) \in DOMAIN cache
        /\ writer[Key(sub[s1])] = s2
        /\ cache[Key(sub[s1])].value = sub[s2].outcome.value

\* C3: a call for a city whose entry is more than CACHE_DURATION old is not
\* served from the cache: the entry is removed and the geocoding call is
\* issued; once geocoding has succeeded the weather call is issued; and a
\* chain that succeeds has issued both calls and leaves the entry holding its
\* reading with the time of the write as timestamp.
C3_Step ==
    \A s \in Subs :
        LET r == sub'[s] IN
        /\ (/\ Starts(s)
            /\ r.city # <<>>
            /\ Key(r) \in DOMAIN cache
            /\ now - cache[Key(r)].timestamp > CACHE_DURATION)
           => /\ r.pc = "geoFetch"
              /\ r.trace = <<"loading", "cacheExpired", "geoCall">>
              /\ Key(r) \notin DOMAIN cache'
        /\ (sub[s].pc = "geoJson" /\ r.pc \notin {"geoJson", "done"})
           => /\ r.pc = "weatherFetch"
              /\ WeatherCalls(r) = 1
        /\ (sub[s].pc = "weatherJson" /\ r.pc = "done" /\ r.outcome.ok)
           => /\ GeoCalls(r) = 1
              /\ WeatherCalls(r) = 1
              /\ Key(r) \in DOMAIN cache'
              /\ cache'[Key(r)] = [value |-> r.outcome.value, timestamp |-> now']

C3_Expiry == [][C3_Step]_vars

C3_Witness ==
    \E s1, s2 \in Subs :
        /\ s1 < s2
        /\ NetworkSuccess(sub[s1])
        /\ NetworkSuccess(sub[s2])
        /\ Key(sub[s1]) = Key(sub[s2])
        /\ Count(sub[s2].trace, "cacheExpired") = 1
        /\ cache[Key(sub[s2])].timestamp = CACHE_DURATION + 1
        /\ cache[Key(sub[s2])].value = sub[s2].outcome.value
        /\ sub[s2].outcome.value # sub[s1].outcome.value

\* the locations getCoordinates can return for the bodies of GeoBodies
FirstResults ==
    { [latitude |-> b.results[1].latitude, longitude |-> b.results[1].longitude,
       name |-> b.results[1].name,
       country |-> IF b.results[1].country = Undefined THEN ""
                   ELSE b.results[1].country] :
        b \in {x \in GeoBodies : x.hasResults /\ Len(x.results) > 0} }

\* the place of the first occurrence of an event in a trace (0: none)
FirstAt(tr, ev) ==
    IF \E i \in 1..Len(tr) : tr[i] = ev
    THEN CHOOSE i \in 1..Len(tr) : tr[i] = ev /\ \A j \in 1..(i - 1) : tr[j] # ev
    ELSE 0

\* C4: in every chain, also when chains are interleaved, no weather call is
\* out while the chain's geocoding call is pending; a weather call that was
\* issued follows the chain's geocoding call and carries the latitude and
\* longitude of the location that chain's geocoding returned; a chain that
\* ended without a location has issued no weather call.
C4_WeatherAfterGeocoding ==
    \A s \in Subs :
        LET r == sub[s] IN
        /\ r.pc \in {"geoFetch", "geoJson"}
           => (WeatherCalls(r) = 0 /\ r.weatherReq = NoCoords /\ r.location = NoLocation)
        /\ WeatherCalls(r) > 0
           => /\ r.location \in FirstResults
              /\ r.weatherReq.latitude = r.location.latitude
              /\ r.weatherReq.longitude = r.location.longitude
              /\ 0 < FirstAt(r.trace, "geoCall")
              /\ FirstAt(r.trace, "geoCall") < FirstAt(r.trace, "weatherCall")
        /\ (r.pc = "done" /\ r.location = NoLocation)
           => (WeatherCalls(r) = 0 /\ r.weatherReq = NoCoords)

C4_Witness ==
    \E s1, s2 \in Subs :
        /\ sub[s1].pc = "weatherFetch"
        /\ sub[s2].pc = "done"
        /\ GeoCalls(sub[s2]) = 1
        /\ sub[s2].location = NoLocation
        /\ sub[s1].weatherReq = [latitude |-> 47, longitude |-> 9]
        /\ sub[s1].location.name = Au

\* ---- rendering -----------------------------------------------------------
ResultShowing(d) == d.result.kind # "empty"
ErrorShowing(d) == ~d.errorHidden /\ d.errorText # NoError

\* the page shows the outcome o of a chain and nothing else
ShowsOnly(d, o) ==
    IF o.ok
    THEN /\ d.result.kind = "result"
         /\ d.result.city = escapeHtml(o.value.city)
         /\ d.result.temperature = o.value.temperature
         /\ ~ErrorShowing(d)
    ELSE IF DOM.error
    THEN /\ ~ResultShowing(d)
         /\ ErrorShowing(d)
         /\ d.errorText = o.error
    ELSE /\ d.result.kind = "error"
         /\ d.result.message = o.error

\* C5: whenever an invocation completes, the page shows the outcome of that
\* invocation only - its result or its error message - and nothing left
\* over from an invocation that completed earlier (result area and error
\* area never both show content).
C5_Step ==
    \A s \in Subs :
        (sub[s].pc # "done" /\ sub'[s].pc = "done")
        => /\ ShowsOnly(ui', sub'[s].outcome)
           /\ ~(ResultShowing(ui') /\ ErrorShowing(ui'))

C5_LastCompletedWins == [][C5_Step]_vars

\* ---- validation as a gate ------------------------------------------------
\* the error section 4.1 asks for, if any
InvalidInput(raw) ==
    \/ Len(Trim(raw)) < 2
    \/ Len(Trim(raw)) > 50
    \/ HasBadChar(raw)

ExpectedValidationError(raw) ==
    IF Len(Trim(raw)) = 0 THEN MsgEmpty
    ELSE IF Len(Trim(raw)) < 2 THEN MsgTooShort
    ELSE IF Len(Trim(raw)) > 50 THEN MsgTooLong
    ELSE MsgInvalidChars

\* C8: a submission whose input fails validation ends at once with exactly
\* one signal, the error signal carrying the validation error's message: no
\* loading signal, no cache lookup or write (the cache mapping is unchanged),
\* no geocoding call and no weather call.
C8_Step ==
    \A s \in Subs :
        LET r == sub'[s] IN
        (Starts(s) /\ InvalidInput(r.raw))
        => /\ r.pc = "done"
           /\ r.trace = <<"error">>
           /\ ~r.outcome.ok
           /\ r.outcome.error = ExpectedValidationError(r.raw)
           /\ IF DOM.error THEN ui'.errorText = r.outcome.error
                           ELSE ui'.result.message = r.outcome.error
           /\ cache' = cache

C8_ValidationGates == [][C8_Step]_vars

C8_Witness ==
    \E s1, s2 \in Subs :
        /\ s1 < s2
        /\ NetworkSuccess(sub[s1])
        /\ sub[s2].pc = "done"
        /\ sub[s2].trace = <<"error">>
        /\ sub[s2].outcome.error = MsgInvalidChars
        /\ DOMAIN cache = {Key(sub[s1])}
        /\ ui.errorText = MsgInvalidChars

\* C9: whenever no chain is outstanding - at the start, and after a
\* validation, geocoding or weather failure as after a success - the loading
\* indicator is hidden and the submit button is enabled.
C9_InteractiveWhenIdle ==
    (\A s \in Subs : ~InFlight(s)) => (ui.loadingHidden /\ ~ui.buttonDisabled)

C9_Witness ==
    \E s1, s2 \in Subs :
        /\ sub[s1].pc = "done"
        /\ ~sub[s1].outcome.ok
        /\ WeatherCalls(sub[s1]) = 1
        /\ sub[s2].pc = "done"
        /\ ~sub[s2].outcome.ok
        /\ GeoCalls(sub[s2]) = 1
        /\ WeatherCalls(sub[s2]) = 0
        /\ DOM.loading
        /\ ui.loadingHidden
        /\ ~ui.buttonDisabled

\* C10: an invocation issues at most one geocoding call and at most one
\* weather call, and once it has ended - with an error or a result - it does
\* nothing more: no further call, no further signal.
C10_Step ==
    \A s \in Subs :
        /\ GeoCalls(sub'[s]) <= 1
        /\ WeatherCalls(sub'[s]) <= 1
        /\ sub[s].pc = "done" => sub'[s] = sub[s]
        /\ (sub[s].pc # "done" /\ sub'[s].pc = "done" /\ ~sub'[s].outcome.ok)
           => sub'[s].trace = Append(sub[s].trace, "error")

C10_NoRetry == [][C10_Step]_vars

C10_Witness ==
    \E s \in Subs :
        /\ sub[s].pc = "done"
        /\ ~sub[s].outcome.ok
        /\ sub[s].outcome.error = ErrStatus("Weather API Fehler: ", 500)
        /\ GeoCalls(sub[s]) = 1
        /\ WeatherCalls(sub[s]) = 1

\* ---- errors ---------------------------------------------------------------
\* invocation s ends with an error in this step
FailsNow(s) == sub[s].pc # "done" /\ sub'[s].pc = "done" /\ ~sub'[s].outcome.ok
\* the message the page shows as the error
ShownError(d) == IF DOM.error THEN d.errorText ELSE d.result.message

\* C11: when validation, geocoding or the weather lookup fails, the error
\* the invocation ends with and the message handed to UI.showError are the
\* error of the failing component, unchanged: the validation message for
\* the input, "Geocoding API Fehler: <status>" or the not-found message with
\* the city for geocoding, "Weather API Fehler: <status>" or the no-data
\* message for the weather lookup.
C11_Step ==
    \A s \in Subs :
        LET e == sub'[s].outcome.error IN
        /\ FailsNow(s) => ShownError(ui') = e
        /\ (FailsNow(s) /\ sub[s].pc = "unused")
           => e = ExpectedValidationError(sub'[s].raw)
        /\ \A o \in FetchOutcomes :
             (FailsNow(s) /\ GeoResponse(s, o))
             => e = IF o.rejected THEN NetworkError
                    ELSE ErrStatus("Geocoding API Fehler: ", o.status)
        /\ (FailsNow(s) /\ sub[s].pc = "geoJson")
           => e = ErrCity("Stadt \"${city}\" wurde nicht gefunden", sub[s].city)
        /\ \A o \in FetchOutcomes :
             (FailsNow(s) /\ WeatherResponse(s, o))
             => e = IF o.rejected THEN NetworkError
                    ELSE ErrStatus("Weather API Fehler: ", o.status)
        /\ (FailsNow(s) /\ sub[s].pc = "weatherJson")
           => e = Err("Keine Wetterdaten verfügbar")

C11_ErrorsUnchanged == [][C11_Step]_vars

C11_Witness ==
    \E s1, s2 \in Subs :
        /\ sub[s1].pc = "done"
        /\ sub[s1].outcome.error = ErrStatus("Geocoding API Fehler: ", 500)
        /\ sub[s2].pc = "done"
        /\ sub[s2].outcome.error
             = ErrCity("Stadt \"${city}\" wurde nicht gefunden", <<"u","L","M">>)
        /\ DOM.error
        /\ ui.errorText = sub[s2].outcome.error

\* ---- result assembly ------------------------------------------------------
\* C12: when the geocoding response holds a non-empty result set, the
\* location is the first result's latitude, longitude, name and country (the
\* empty string when the country is absent); when the weather response then
\* holds the temperature, getTemperature returns the reading made of that
\* location's name (not the text the user typed), that country and the
\* provider's temperature, unmodified.
C12_Step ==
    \A s \in Subs :
        /\ \A data \in GeoBodies :
             (GeoBody(s, data) /\ data.hasResults /\ Len(data.results) > 0)
             => sub'[s].location =
                  [latitude |-> data.results[1].latitude,
                   longitude |-> data.results[1].longitude,
                   name |-> data.results[1].name,
                   country |-> IF data.results[1].country = Undefined THEN ""
                               ELSE data.results[1].country]
        /\ \A data \in WeatherBodies :
             (WeatherBody(s, data) /\ data.hasCurrent /\ data.hasTemperature)
             => /\ sub'[s].pc = "done"
                /\ sub'[s].outcome.ok
                /\ sub'[s].outcome.value =
                     [city |-> sub[s].location.name,
                      country |-> sub[s].location.country,
                      temperature |-> data.temperature_2m]

C12_ResultAssembly == [][C12_Step]_vars

C12_Witness ==
    \E s \in Subs :
        /\ NetworkSuccess(sub[s])
        /\ sub[s].raw = Ulm
        /\ sub[s].outcome.value = [city |-> Au, country |-> "", temperature |-> 93]
        /\ ui.result.kind = "result"
        /\ ui.result.city = Au
        /\ ui.result.temperature = 93

\* ---- the cache ------------------------------------------------------------
\* C13: Cache.get of a present key returns the stored value and leaves the
\* mapping unchanged when now - storedAt <= 300000 (an entry aged exactly
\* that is a hit), and removes that entry - and no other - and returns
\* absent when now - storedAt > 300000; a get of an absent key returns
\* absent and changes nothing; get never adds or alters an entry; an entry
\* disappears only through a get of its own key past expiry or through
\* clear, never by the clock advancing.
C13_Step ==
    /\ \A k \in CacheKeys :
         CacheGetOp(k) =>
            /\ k \notin DOMAIN cache => (~cGot'.found /\ cache' = cache)
            /\ (k \in DOMAIN cache /\ now - cache[k].timestamp <= 300000)
               => /\ cGot'.found
                  /\ cGot'.value = cache[k].value
                  /\ cache' = cache
            /\ (k \in DOMAIN cache /\ now - cache[k].timestamp > 300000)
               => /\ ~cGot'.found
                  /\ DOMAIN cache' = DOMAIN cache \ {k}
                  /\ \A j \in DOMAIN cache' : cache'[j] = cache[j]
    /\ \A k \in DOMAIN cache :
         k \notin DOMAIN cache'
         => \/ CacheGetOp(k) /\ now - cache[k].timestamp > 300000
            \/ CacheClearOp
    /\ now' # now => cache' = cache

C13_CacheGetLazyLocal == [][C13_Step]_vars

C13_Witness ==
    /\ cGot.found
    /\ cGot.key \in DOMAIN cache
    /\ cGot.at - cache[cGot.key].timestamp = 300000
    /\ cGot.value = cache[cGot.key].value
    /\ \E j \in DOMAIN cache :
         j # cGot.key /\ cGot.at - cache[j].timestamp > 300000

\* ---- cache keys -----------------------------------------------------------
UpperLetters == UpperAscii \cup {"Ä", "Ö", "Ü"}

\* a lowercased CityQuery: trimmed, 2 to 50 characters of the allowed set,
\* none of them an upper-case letter
NormalizedKey(k) ==
    /\ Len(k) >= 2
    /\ Len(k) <= 50
    /\ Trim(k) = k
    /\ ~HasBadChar(k)
    /\ \A i \in 1..Len(k) : k[i] \notin UpperLetters

SameIgnoringCase(a, b) ==
    /\ Len(a) = Len(b)
    /\ \A i \in 1..Len(a) :
         \/ a[i] = b[i]
         \/ \E j \in 1..Len(UpperSeq) : {a[i], b[i]} = {UpperSeq[j], LowerSeq[j]}

\* C14: every key of the cache mapping is a lowercased CityQuery, and a
\* submission whose trimmed input differs only in letter case from that of
\* an earlier submission whose entry is still in the cache and at most
\* CACHE_DURATION old is served from that entry, with no network call.
C14_Step ==
    /\ \A k \in DOMAIN cache' : NormalizedKey(k)
    /\ \A s, s1 \in Subs :
         \A k \in DOMAIN cache :
            (/\ Starts(s)
             /\ ~InvalidInput(sub'[s].raw)
             /\ writer[k] = s1
             /\ SameIgnoringCase(Trim(sub'[s].raw), Trim(sub[s1].raw))
             /\ now - cache[k].timestamp <= CACHE_DURATION)
            => /\ ServedFromCache(sub'[s])
               /\ GeoCalls(sub'[s]) = 0
               /\ WeatherCalls(sub'[s]) = 0
               /\ sub'[s].outcome.value = cache[k].value
               /\ cache' = cache

C14_NormalizedKeys == [][C14_Step]_vars

C14_Witness ==
    \E s1, s2 \in Subs :
        /\ sub[s1].raw = <<" ","u","L","M","\t">>
        /\ NetworkSuccess(sub[s1])
        /\ sub[s2].raw = Ulm
        /\ ServedFromCache(sub[s2])
        /\ DOMAIN cache = {<<"u","l","m">>}
        /\ sub[s2].outcome.value = cache[<<"u","l","m">>].value

\* ---- presenter protocol ---------------------------------------------------
Signals(tr, kinds) == SelectSeq(tr, LAMBDA ev : ev \in kinds)
Terminals == {"success", "error"}

C15_Protocol ==
    \A s \in Subs :
        LET r == sub[s] IN
        (r.pc # "unused" /\ ~InvalidInput(r.raw))
        => /\ r.trace[1] = "loading"
           /\ Count(r.trace, "loading") = 1
           /\ r.pc # "done" => Signals(r.trace, Terminals) = <<>>
           /\ r.pc = "done"
              => /\ Len(Signals(r.trace, Terminals)) = 1
                 /\ r.trace[Len(r.trace)] \in Terminals
                 /\ r.trace[Len(r.trace)] = "success" <=> r.outcome.ok
           /\ Count(r.trace, "cacheHit") = 1
              => r.trace = <<"loading", "cacheHit", "success">>

C15_Completes ==
    \A s \in Subs : InFlight(s) ~> (sub[s].pc = "done" \/ ~alive)

\* C15: a submission that passes validation emits the loading signal exactly
\* once and first, before any cache lookup or network call, and no terminal
\* signal while its chain is outstanding; once the chain has completed it
\* has emitted exactly one terminal signal, success or error, as its last
\* event; a cache hit goes loading, then success.  If every network call
\* that is out is answered, every outstanding chain completes and so emits
\* its terminal signal (unless the page is left first).
C15_PresenterProtocol == []C15_Protocol /\ C15_Completes

C15_Witness ==
    \E s1, s2 \in Subs :
        /\ sub[s1].pc = "done"
        /\ sub[s1].trace =
             <<"loading", "cacheMiss", "geoCall", "weatherCall", "cacheSet", "success">>
        /\ sub[s2].pc = "done"
        /\ sub[s2].trace = <<"loading", "cacheHit", "success">>
        /\ alive

\* ---- concurrent chains ----------------------------------------------------
\* invocation s completes in this step with a result fetched from the network
CompletesNow(s) ==
    sub[s].pc = "weatherJson" /\ sub'[s].pc = "done" /\ sub'[s].outcome.ok

\* C16: chains for the same city are independent.  A submission made while
\* another chain for the same city is awaiting the network (the cache
\* holding no entry for the city that is still fresh) misses the cache and
\* issues its own geocoding call, and no step of one chain changes another;
\* each chain that succeeds writes the entry on completion - its reading,
\* with the time of the write - so the entry holds what the chain that
\* completed last wrote, and nothing else alters an entry; at every moment
\* each cached value is the complete reading of one successful chain: that
\* chain's resolved name and country with that chain's temperature.
C16_Step ==
    /\ \A s, s1 \in Subs :
         LET r == sub'[s] IN
         (/\ Starts(s)
          /\ ~InvalidInput(r.raw)
          /\ InFlight(s1)
          /\ Key(sub[s1]) = Key(r)
          /\ Key(r) \in DOMAIN cache => now - cache[Key(r)].timestamp > CACHE_DURATION)
         => /\ r.pc = "geoFetch"
            /\ GeoCalls(r) = 1
            /\ Count(r.trace, "cacheHit") = 0
    /\ \A s, s1 \in Subs : (s # s1 /\ sub'[s] # sub[s]) => sub'[s1] = sub[s1]
    /\ \A s \in Subs :
         CompletesNow(s)
         => /\ GeoCalls(sub'[s]) = 1
            /\ WeatherCalls(sub'[s]) = 1
            /\ DOMAIN cache' = DOMAIN cache \cup {Key(sub[s])}
            /\ cache'[Key(sub[s])] =
                 [value |-> sub'[s].outcome.value, timestamp |-> now']
    /\ \A k \in DOMAIN cache \cap DOMAIN cache' :
         cache'[k] # cache[k] => \E s \in Subs : CompletesNow(s) /\ Key(sub[s]) = k
    /\ \A k \in DOMAIN cache' :
         \E s \in Subs :
            /\ NetworkSuccess(sub'[s])
            /\ Key(sub'[s]) = k
            /\ cache'[k].value = sub'[s].outcome.value
            /\ cache'[k].value.city = sub'[s].location.name
            /\ cache'[k].value.country = sub'[s].location.country

C16_IndependentChains == [][C16_Step]_vars

C16_Witness ==
    \E s1, s2 \in Subs :
        /\ s1 < s2
        /\ NetworkSuccess(sub[s1])
        /\ NetworkSuccess(sub[s2])
        /\ Key(sub[s1]) = Key(sub[s2])
        /\ Count(sub[s1].trace, "cacheMiss") = 1
        /\ Count(sub[s2].trace, "cacheMiss") = 1
        /\ sub[s1].outcome.value # sub[s2].outcome.value
        /\ Key(sub[s1]) \in DOMAIN cache
        /\ cache[Key(sub[s1])].value = sub[s1].outcome.value
        /\ cache[Key(sub[s1])].timestamp = now
        /\ now > 0

\* ---- a temperature of zero ------------------------------------------------
DataUnavailable == Err("Keine Wetterdaten verfügbar")

\* C17: the weather data of a response that was received is refused, with
\* "Keine Wetterdaten verfügbar", exactly when current or its temperature_2m
\* is missing; a response whose temperature_2m is 0 gives a successful
\* reading with temperature 0, which is shown and stored; and a call that
\* finds an entry with temperature 0 not older than CACHE_DURATION is served
\* from the cache, with temperature 0 and without a network call.
C17_Step ==
    /\ \A s \in Subs : \A data \in WeatherBodies :
         WeatherBody(s, data)
         => /\ (~sub'[s].outcome.ok /\ sub'[s].outcome.error = DataUnavailable)
                 <=> (~data.hasCurrent \/ ~data.hasTemperature)
            /\ (data.hasCurrent /\ data.hasTemperature /\ data.temperature_2m = 0)
                 => /\ NetworkSuccess(sub'[s])
                    /\ sub'[s].outcome.value.temperature = 0
                    /\ Key(sub[s]) \in DOMAIN cache'
                    /\ cache'[Key(sub[s])].value = sub'[s].outcome.value
                    /\ cache'[Key(sub[s])].timestamp = now'
                    /\ ui'.result.kind = "result"
                    /\ ui'.result.temperature = 0
    /\ \A s \in Subs :
         LET r == sub'[s] IN
         (/\ Starts(s)
          /\ ~InvalidInput(r.raw)
          /\ Key(r) \in DOMAIN cache
          /\ cache[Key(r)].value.temperature = 0
          /\ now - cache[Key(r)].timestamp <= CACHE_DURATION)
         => /\ ServedFromCache(r)
            /\ r.outcome.value = cache[Key(r)].value
            /\ r.outcome.value.temperature = 0
            /\ GeoCalls(r) = 0
            /\ WeatherCalls(r) = 0
            /\ cache' = cache

C17_ZeroTemperature == [][C17_Step]_vars

C17_Witness ==
    \E s1, s2 \in Subs :
        /\ s1 < s2
        /\ NetworkSuccess(sub[s1])
        /\ sub[s1].outcome.value.temperature = 0
        /\ ServedFromCache(sub[s2])
        /\ Key(sub[s2]) = Key(sub[s1])
        /\ sub[s2].outcome.value.temperature = 0
        /\ GeoCalls(sub[s2]) = 0
        /\ WeatherCalls(sub[s2]) = 0
        /\ now > 0
        /\ ui.result.kind = "result"
        /\ ui.result.temperature = 0

====
